---- MODULE Spec2Model ----
(***************************************************************************)
(* A model of webtraffic (src/main.go): the driver loop `run`, the         *)
(* traversal `recursiveBrowse`, the fetcher `doRequest` with its 429       *)
(* backoff, the link extractor `getLinks` and the filter `isBlacklisted`.  *)
(*                                                                         *)
(* A string is a sequence of one-character strings, so that substring      *)
(* tests are computed.  A response body is a sequence of items: an item    *)
(* [k |-> "href", s |-> u] is one occurrence of href="u" with u an         *)
(* absolute http(s) URL (a match of linkRegex), an item [k |-> "text"]     *)
(* is a run of bytes that holds no match.                                  *)
(***************************************************************************)
EXTENDS Integers, Sequences, FiniteSets, TLC

VARIABLES
    min_wait, max_wait,      \* viper "min_wait", "max_wait"
    min_depth, max_depth,    \* viper "min_depth", "max_depth"
    root_urls,               \* viper "root_urls"
    blacklist,               \* viper "blacklist"
    dataMeter, goodRequests, badRequests,   \* the package counters
    pc,                      \* position of the single thread of control
    url, depth,              \* arguments of the current recursiveBrowse call
    res,                     \* what doRequest returned to recursiveBrowse
    ret,                     \* what the last isBlacklisted or getLinks call
                             \* made on its own returned
    cfg0,                    \* history: the configuration as loaded
    d0,                      \* history: the depth drawn for this traversal
    trace,                   \* history: events of the current traversal
    recent,                  \* history: the last two doRequest calls
    nFetch, nOK, n429,       \* history: calls, calls without error, 429s
    failed                   \* history: URLs blacklisted at depth >= 1 on
                             \* a failure of client.Do or io.ReadAll

vars == << min_wait, max_wait, min_depth, max_depth, root_urls, blacklist,
           dataMeter, goodRequests, badRequests, pc, url, depth, res, ret,
           cfg0, d0, trace, recent, nFetch, nOK, n429, failed >>

----------------------------------------------------------------------------
(* Bounds of the model *)

\* doRequest calls in one run of the process
MaxFetches == 4
\* the largest max_depth among the configurations
MaxDepthCfg == 2

\* the longest blacklist entry, and the longest blacklist, that the filter
\* is applied to on its own; links are up to one character longer
MaxEntryLen == 2
MaxEntries == 2
\* the longest body, in items, that the extractor is applied to on its own
MaxItems == 3

(* Program constants *)

\* time.Sleep(30 * time.Second) after a failed client.Do
PenaltySleep == 30
\* pauseBeforeBrowse
PauseBeforeBrowse == 10
\* the increment of min_wait and max_wait on a 429
BackoffStep == 10
\* len(`href="`) + len(`"`): what a match adds to the URL it encloses
HrefOverhead == 7

----------------------------------------------------------------------------
(* Strings, URLs, bodies *)

A == << "a" >>
B == << "b" >>
AB == << "a", "b" >>
Empty == << >>

URLs == { A, B, AB }

Href(u) == [k |-> "href", s |-> u]
Text(s) == [k |-> "text", s |-> s]

\* a page without a link, and a page with three, one of them twice
NoLinks == << Text(<< "x", "x", "x" >>) >>
Links == << Href(AB), Text(<< "x" >>), Href(B), Href(AB) >>

Statuses == { 200, 404, 429 }

\* what one GET can do: fail in http.NewRequest, in client.Do or in
\* io.ReadAll, or answer with a status and a body
Outcomes ==
    [err : {"newreq", "do", "read"}, status : {0}, content : { << >> }]
    \cup [err : {"none"}, status : Statuses, content : { Links }]
    \cup [err : {"none"}, status : { 200, 429 }, content : { NoLinks }]

Config(mind, maxd, minw, maxw, roots, bl) ==
    [min_depth |-> mind, max_depth |-> maxd, min_wait |-> minw,
     max_wait |-> maxw, root_urls |-> roots, blacklist |-> bl]

Configs ==
    { Config(0, MaxDepthCfg, 1, 1, << A >>, << >>),
      Config(1, 1, 1, 2, << AB, B >>, << A >>),
      Config(1, 1, 1, 1, << A >>, << Empty >>),
      Config(1, 1, 2, 1, << A >>, << >>),
      Config(MaxDepthCfg, 1, 1, 1, << A >>, << >>),
      Config(-1, -1, 1, 1, << A >>, << >>),
      Config(1, 1, 1, 1, << >>, << >>) }

----------------------------------------------------------------------------
(* strings.Contains(s, substr): the first index of substr in s is >= 0 *)

RECURSIVE IndexFrom(_, _, _)
IndexFrom(s, substr, i) ==
    IF i + Len(substr) > Len(s) THEN -1
    ELSE IF SubSeq(s, i + 1, i + Len(substr)) = substr THEN i
    ELSE IndexFrom(s, substr, i + 1)

Contains(s, substr) == IndexFrom(s, substr, 0) >= 0

(* isBlacklisted: the loop over the live blacklist, first hit returns *)

RECURSIVE isBlacklistedFrom(_, _, _)
isBlacklistedFrom(link, bl, i) ==
    IF i > Len(bl) THEN FALSE
    ELSE IF Contains(link, bl[i]) THEN TRUE
    ELSE isBlacklistedFrom(link, bl, i + 1)

\* a filter that compares whole strings (strings.Contains taken for ==)
isBlacklistedExact(link, bl) == \E i \in 1..Len(bl) : bl[i] = link

isBlacklisted(link, bl) == isBlacklistedFrom(link, bl, 1)

(* getLinks: the matches of linkRegex in order, stripped, filtered *)

FindAllString(content) ==
    LET IsMatch(it) == it.k = "href" IN SelectSeq(content, IsMatch)

RECURSIVE getLinksFrom(_, _, _)
getLinksFrom(links, bl, i) ==
    IF i > Len(links) THEN << >>
    ELSE LET cleanLink == links[i].s
             rest == getLinksFrom(links, bl, i + 1)
         IN IF ~isBlacklisted(cleanLink, bl) THEN << cleanLink >> \o rest
            ELSE rest

\* an extractor that forgets the filter
getLinksUnfiltered(content, bl) ==
    LET links == FindAllString(content)
    IN [i \in 1..Len(links) |-> links[i].s]

\* an extractor that returns each link once
RECURSIVE Dedup(_)
Dedup(links) ==
    IF links = << >> THEN << >>
    ELSE LET rest == Dedup(Tail(links))
         IN IF \E i \in DOMAIN rest : rest[i] = Head(links)
            THEN rest ELSE << Head(links) >> \o rest

getLinksDedup(content, bl) ==
    Dedup(getLinksFrom(FindAllString(content), bl, 1))

getLinks(content, bl) == getLinksFrom(FindAllString(content), bl, 1)

(* len(content) *)

RECURSIVE ByteLen(_)
ByteLen(content) ==
    IF content = << >> THEN 0
    ELSE Len(Head(content).s)
         + (IF Head(content).k = "href" THEN HrefOverhead ELSE 0)
         + ByteLen(Tail(content))

----------------------------------------------------------------------------
(* doRequest, by what it returns and what it leaves in the shared state *)

\* the penalty sleep of doRequest, in seconds (0: none)
penaltyOf(o) == IF o.err = "do" THEN PenaltySleep ELSE 0

\* a fetcher that reports every status but 200 as an error
returnsErrorNon200(o) == o.err # "none" \/ o.status # 200

returnsError(o) == o.err # "none"

\* a meter that counts the bodies of 200 responses only
dataMeterAfterOnly200(o, m) ==
    IF ~returnsError(o) /\ o.status = 200 THEN m + ByteLen(o.content) ELSE m

dataMeterAfter(o, m) == IF returnsError(o) THEN m ELSE m + ByteLen(o.content)

\* a counter that takes a failed request for a bad one
badRequestsAfterCountsErrors(o, b) ==
    IF o.err # "none" \/ o.status # 200 THEN b + 1 ELSE b

badRequestsAfter(o, b) ==
    IF ~returnsError(o) /\ o.status # 200 THEN b + 1 ELSE b

goodRequestsAfter(o, g) ==
    IF ~returnsError(o) /\ o.status = 200 THEN g + 1 ELSE g

\* a backoff that stops once min_wait has reached twice the step
min_waitAfterCapped(o, w) ==
    IF o.err = "none" /\ o.status = 429 /\ w < 2 * BackoffStep
    THEN w + BackoffStep ELSE w

min_waitAfter(o, w) ==
    IF ~returnsError(o) /\ o.status = 429 THEN w + BackoffStep ELSE w

\* max_wait set from min_wait, which line 235 has raised already
max_waitAfterFromMin(o, w) ==
    IF ~returnsError(o) /\ o.status = 429
    THEN min_waitAfter(o, min_wait) + BackoffStep ELSE w

\* a backoff that raises min_wait alone
max_waitAfterNoBackoff(o, w) == w

max_waitAfter(o, w) ==
    IF ~returnsError(o) /\ o.status = 429 THEN w + BackoffStep ELSE w

(* viper.Set("blacklist", append(viper.GetStringSlice("blacklist"), url)) *)

\* an append made twice
blacklistAppendTwice(bl, u) == bl \o << u, u >>

\* a blacklist that keeps the last URL only
blacklistSetOnly(bl, u) == << u >>

blacklistAppend(bl, u) == Append(bl, u)

Event(k, u, n) == [k |-> k, u |-> u, n |-> n]

\* recursiveBrowse(validLinks[...], depth-1)
\* a recursion that passes its own depth on
nextDepthSame(d) == d

nextDepth(d) == d - 1

\* rand.Intn(n) panics unless n > 0
IntnPanics(n) == n <= 0

\* rand.Intn(n): any of 0 .. n-1
randIntn(n) == 0..(n - 1)

\* a draw that forgets to add min_depth
depthDrawNoOffset(mind, maxd) == randIntn(maxd - mind + 1)

\* rand.Intn(max_depth - min_depth + 1) + min_depth
depthDraw(mind, maxd) == { r + mind : r \in randIntn(maxd - mind + 1) }

\* a draw that forgets to add min_wait
sleepDrawNoOffset(minw, maxw) == randIntn(maxw - minw + 1)

\* rand.Intn(max_wait - min_wait + 1) + min_wait
sleepDraw(minw, maxw) == { r + minw : r \in randIntn(maxw - minw + 1) }

\* a call that goes on to the error and link handling at depth 0 too
returnsAfterRequestNever(d) == FALSE

\* if depth == 0 { doRequest(url); return }
returnsAfterRequest(d) == d = 0

LastTwo(s) == IF Len(s) > 2 THEN Tail(s) ELSE s

NoRes == [err |-> "none", status |-> 0, content |-> << >>]

----------------------------------------------------------------------------
Init ==
    \E c \in Configs :
        /\ cfg0 = c
        /\ min_wait = c.min_wait /\ max_wait = c.max_wait
        /\ min_depth = c.min_depth /\ max_depth = c.max_depth
        /\ root_urls = c.root_urls
        /\ blacklist = c.blacklist
        /\ dataMeter = 0 /\ goodRequests = 0 /\ badRequests = 0
        /\ pc = "run"
        /\ url = << >> /\ depth = 0 /\ d0 = 0
        /\ res = NoRes
        /\ ret = FALSE
        /\ trace = << >>
        /\ recent = << >>
        /\ nFetch = 0 /\ nOK = 0 /\ n429 = 0
        /\ failed = {}

(* run, lines 134-139: draw a root URL and a depth, call recursiveBrowse *)
run ==
    /\ pc = "run"
    /\ \/ /\ IntnPanics(Len(root_urls))
          /\ pc' = "panic"
          /\ UNCHANGED << url, depth, d0, trace >>
       \/ /\ ~IntnPanics(Len(root_urls))
          /\ IntnPanics(max_depth - min_depth + 1)
          /\ pc' = "panic"
          /\ UNCHANGED << url, depth, d0, trace >>
       \/ /\ ~IntnPanics(Len(root_urls))
          /\ ~IntnPanics(max_depth - min_depth + 1)
          /\ \E i \in 1..Len(root_urls), d \in depthDraw(min_depth, max_depth) :
                /\ url' = root_urls[i]
                /\ depth' = d
                /\ d0' = d
                /\ trace' = << Event("call", root_urls[i], d) >>
          /\ pc' = "browse"
    /\ UNCHANGED << min_wait, max_wait, min_depth, max_depth, root_urls,
                    blacklist, dataMeter, goodRequests, badRequests, res,
                    ret, cfg0, recent, nFetch, nOK, n429, failed >>

\* a loop that ends when the traversal came back from a failed fetch
runPauseBreak ==
    /\ pc = "pause"
    /\ trace' = Append(trace, Event("pause", << >>, PauseBeforeBrowse))
    /\ pc' = IF returnsError(res) THEN "exit" ELSE "run"
    /\ UNCHANGED << min_wait, max_wait, min_depth, max_depth, root_urls,
                    blacklist, dataMeter, goodRequests, badRequests, url,
                    depth, res, ret, cfg0, d0, recent, nFetch, nOK,
                    n429, failed >>

(* run, lines 142-144: the pause after recursiveBrowse has returned *)
runPause ==
    /\ pc = "pause"
    /\ trace' = Append(trace, Event("pause", << >>, PauseBeforeBrowse))
    /\ pc' = "run"
    /\ UNCHANGED << min_wait, max_wait, min_depth, max_depth, root_urls,
                    blacklist, dataMeter, goodRequests, badRequests, url,
                    depth, res, ret, cfg0, d0, recent, nFetch, nOK,
                    n429, failed >>

(* recursiveBrowse, lines 155-166, with the whole of doRequest (201-248): *)
(* at depth 0 the call returns after the request whatever it gave         *)
recursiveBrowseRequestOf(answers) ==
    /\ pc = "browse"
    /\ nFetch < MaxFetches
    /\ \E o \in answers :
          /\ res' = o
          /\ dataMeter' = dataMeterAfter(o, dataMeter)
          /\ goodRequests' = goodRequestsAfter(o, goodRequests)
          /\ badRequests' = badRequestsAfter(o, badRequests)
          /\ min_wait' = min_waitAfter(o, min_wait)
          /\ max_wait' = max_waitAfter(o, max_wait)
          /\ recent' = LastTwo(Append(recent,
                 [url |-> url, depth |-> depth, o |-> o,
                  penalty |-> penaltyOf(o),
                  min_wait |-> min_wait, max_wait |-> max_wait,
                  dataMeter |-> dataMeter, goodRequests |-> goodRequests,
                  badRequests |-> badRequests,
                  wasFailed |-> url \in failed]))
          /\ nFetch' = nFetch + 1
          /\ nOK' = IF returnsError(o) THEN nOK ELSE nOK + 1
          /\ n429' = IF ~returnsError(o) /\ o.status = 429
                     THEN n429 + 1 ELSE n429
          /\ trace' = trace \o << Event("fetch", url, depth) >>
                       \o (IF penaltyOf(o) > 0
                            THEN << Event("penalty", url, penaltyOf(o)) >>
                            ELSE << >>)
    /\ pc' = IF returnsAfterRequest(depth) THEN "pause" ELSE "fetched"
    /\ UNCHANGED << min_depth, max_depth, root_urls, blacklist, url, depth,
                    ret, cfg0, d0, failed >>

\* the web at large: any answer to any request
recursiveBrowseRequest == recursiveBrowseRequestOf(Outcomes)

(* recursiveBrowse, lines 167-189: blacklist on error or dead end, else   *)
(* sleep, choose a valid link and recurse                                 *)
recursiveBrowseContinue ==
    /\ pc = "fetched"
    /\ LET validLinks == getLinks(res.content, blacklist) IN
       \/ /\ returnsError(res)
          /\ blacklist' = blacklistAppend(blacklist, url)
          /\ failed' = IF depth >= 1 /\ res.err \in {"do", "read"}
                       THEN failed \cup { url } ELSE failed
          /\ trace' = Append(trace, Event("blacklist", url, depth))
          /\ pc' = "pause"
          /\ UNCHANGED << url, depth >>
       \/ /\ ~returnsError(res)
          /\ Len(validLinks) = 0
          /\ blacklist' = blacklistAppend(blacklist, url)
          /\ trace' = Append(trace, Event("blacklist", url, depth))
          /\ pc' = "pause"
          /\ UNCHANGED << url, depth, failed >>
       \/ /\ ~returnsError(res)
          /\ Len(validLinks) # 0
          /\ IntnPanics(max_wait - min_wait + 1)
          /\ pc' = "panic"
          /\ UNCHANGED << url, depth, blacklist, failed, trace >>
       \/ /\ ~returnsError(res)
          /\ Len(validLinks) # 0
          /\ ~IntnPanics(max_wait - min_wait + 1)
          /\ \E sleepTime \in sleepDraw(min_wait, max_wait),
                i \in 1..Len(validLinks) :
                /\ url' = validLinks[i]
                /\ depth' = nextDepth(depth)
                /\ trace' = trace \o << Event("wait", url, sleepTime),
                                         Event("call", validLinks[i],
                                               nextDepth(depth)) >>
          /\ pc' = "browse"
          /\ UNCHANGED << blacklist, failed >>
    /\ UNCHANGED << min_wait, max_wait, min_depth, max_depth, root_urls,
                    dataMeter, goodRequests, badRequests, res, ret, cfg0,
                    d0, recent, nFetch, nOK, n429 >>

Next == run \/ runPause \/ recursiveBrowseRequest \/ recursiveBrowseContinue

Spec == Init /\ [][Next]_vars

\* the single thread of control runs whenever it can
FairSpec == Spec /\ WF_vars(Next)

----------------------------------------------------------------------------
(* The blacklist filter on its own: isBlacklisted applied to every link    *)
(* and every blacklist within the bounds                                   *)

Chars == { "a", "b" }

StringsUpTo(n) == UNION { [1..k -> Chars] : k \in 0..n }

BlacklistsUpTo(n, m) == UNION { [1..k -> StringsUpTo(m)] : k \in 0..n }

FilterInit ==
    /\ blacklist \in BlacklistsUpTo(MaxEntries, MaxEntryLen)
    /\ url \in StringsUpTo(MaxEntryLen + 1)
    /\ pc = "filter"
    /\ ret = FALSE
    /\ cfg0 = Config(0, 0, 0, 0, << >>, blacklist)
    /\ min_wait = 0 /\ max_wait = 0 /\ min_depth = 0 /\ max_depth = 0
    /\ root_urls = << >>
    /\ dataMeter = 0 /\ goodRequests = 0 /\ badRequests = 0
    /\ depth = 0 /\ d0 = 0
    /\ res = NoRes
    /\ trace = << >>
    /\ recent = << >>
    /\ nFetch = 0 /\ nOK = 0 /\ n429 = 0
    /\ failed = {}

(* one call isBlacklisted(url), lines 277-284 *)
isBlacklistedCall ==
    /\ pc = "filter"
    /\ ret' = isBlacklisted(url, blacklist)
    /\ pc' = "filtered"
    /\ UNCHANGED << min_wait, max_wait, min_depth, max_depth, root_urls,
                    blacklist, dataMeter, goodRequests, badRequests, url,
                    depth, res, cfg0, d0, trace, recent, nFetch, nOK, n429,
                    failed >>

FilterNext == isBlacklistedCall

FilterSpec == FilterInit /\ [][FilterNext]_vars

----------------------------------------------------------------------------
(* The end-to-end scenario: root A drawn with depth 2, an empty blacklist, *)
(* A answering 200 with links to B and C, B answering 429 with a link to   *)
(* D; C and D answer anything.  The wait bounds are ordered.               *)

C == << "c" >>
D == << "d" >>

PageA == << Href(B), Text(<< "x" >>), Href(C) >>
PageB == << Href(D) >>

ScenarioAnswers(u) ==
    IF u = A THEN { [err |-> "none", status |-> 200, content |-> PageA] }
    ELSE IF u = B THEN { [err |-> "none", status |-> 429, content |-> PageB] }
    ELSE Outcomes

ScenarioInit ==
    /\ cfg0 = Config(2, 2, 1, 2, << A >>, << >>)
    /\ min_wait = cfg0.min_wait /\ max_wait = cfg0.max_wait
    /\ min_depth = cfg0.min_depth /\ max_depth = cfg0.max_depth
    /\ root_urls = cfg0.root_urls
    /\ blacklist = cfg0.blacklist
    /\ dataMeter = 0 /\ goodRequests = 0 /\ badRequests = 0
    /\ pc = "run"
    /\ url = << >> /\ depth = 0 /\ d0 = 0
    /\ res = NoRes
    /\ ret = FALSE
    /\ trace = << >>
    /\ recent = << >>
    /\ nFetch = 0 /\ nOK = 0 /\ n429 = 0
    /\ failed = {}

\* recursiveBrowse up to its request, against the scenario's fetcher
scenarioRequest == recursiveBrowseRequestOf(ScenarioAnswers(url))

ScenarioNext ==
    run \/ runPause \/ scenarioRequest \/ recursiveBrowseContinue

ScenarioSpec == ScenarioInit /\ [][ScenarioNext]_vars

----------------------------------------------------------------------------
(* The link extractor on its own: getLinks applied to every body of up to  *)
(* MaxItems items and every blacklist of up to MaxEntries entries of at    *)
(* most one character                                                      *)

Items ==
    { Href(u) : u \in URLs }
    \cup { Text(<< "x" >>), Text(<< "/", "a" >>) }

BodiesUpTo(n) == UNION { [1..k -> Items] : k \in 0..n }

ExtractInit ==
    /\ blacklist \in BlacklistsUpTo(MaxEntries, 1)
    /\ res \in [err : {"none"}, status : {200}, content : BodiesUpTo(MaxItems)]
    /\ pc = "extract"
    /\ ret = << >>
    /\ url = << >>
    /\ cfg0 = Config(0, 0, 0, 0, << >>, blacklist)
    /\ min_wait = 0 /\ max_wait = 0 /\ min_depth = 0 /\ max_depth = 0
    /\ root_urls = << >>
    /\ dataMeter = 0 /\ goodRequests = 0 /\ badRequests = 0
    /\ depth = 0 /\ d0 = 0
    /\ trace = << >>
    /\ recent = << >>
    /\ nFetch = 0 /\ nOK = 0 /\ n429 = 0
    /\ failed = {}

(* one call getLinks(content), lines 258-268 *)
getLinksCall ==
    /\ pc = "extract"
    /\ ret' = getLinks(res.content, blacklist)
    /\ pc' = "extracted"
    /\ UNCHANGED << min_wait, max_wait, min_depth, max_depth, root_urls,
                    blacklist, dataMeter, goodRequests, badRequests, url,
                    depth, res, cfg0, d0, trace, recent, nFetch, nOK, n429,
                    failed >>

ExtractNext == getLinksCall

ExtractSpec == ExtractInit /\ [][ExtractNext]_vars

----------------------------------------------------------------------------
(* Vocabulary of the properties *)

\* b occurs in u: u = x \o b \o y for some x and y
IsSubstring(b, u) ==
    \E i \in 0..Len(u), j \in 0..Len(u) :
        /\ i <= j
        /\ j - i = Len(b)
        /\ \A k \in 1..Len(b) : u[i + k] = b[k]

\* some entry of bl occurs in u
Matches(u, bl) == \E i \in DOMAIN bl : IsSubstring(bl[i], u)

Count(seq, x) == Cardinality({ i \in DOMAIN seq : seq[i] = x })

IsPrefix(p, q) == Len(p) <= Len(q) /\ SubSeq(q, 1, Len(p)) = p

EventsOf(k) == LET Is(e) == e.k = k IN SelectSeq(trace, Is)

Last == recent[Len(recent)]

\* Prev is the call before Last
Prev == recent[1]

Answered(r) == r.o.err = "none"

\* the loaded configuration lets every draw succeed and every traversal end
ConfigOK0 ==
    /\ Len(cfg0.root_urls) > 0
    /\ 0 <= cfg0.min_depth
    /\ cfg0.min_depth <= cfg0.max_depth
    /\ cfg0.min_wait <= cfg0.max_wait

\* recursiveBrowse has just been called by run
TraversalStarts == pc = "browse" /\ Len(trace) = 1

----------------------------------------------------------------------------
(* C1: once a fetch of u at depth >= 1 has failed with a transport error,  *)
(* u is in the blacklist exactly once and no later fetch, of a link or of  *)
(* a root, is of u (stated for the configurations that satisfy ConfigOK0). *)
C1_FailedUrlOnceAndNeverRefetched ==
    ConfigOK0 =>
        /\ \A u \in failed : Count(blacklist, u) = 1
        /\ nFetch >= 1 => ~Last.wasFailed

(* C2: a fetch answered 429, at any depth, leaves min_wait and max_wait    *)
(* at their values before the fetch plus 10; the next fetch finds those    *)
(* values, and two 429 in a row add 20.                                    *)
C2_BackoffAddsTen ==
    /\ (nFetch >= 1 /\ Answered(Last) /\ Last.o.status = 429)
          => /\ min_wait = Last.min_wait + 10
             /\ max_wait = Last.max_wait + 10
    /\ (nFetch >= 2 /\ Answered(Prev) /\ Prev.o.status = 429)
          => /\ Last.min_wait = Prev.min_wait + 10
             /\ Last.max_wait = Prev.max_wait + 10
    /\ (nFetch >= 2 /\ Answered(Prev) /\ Prev.o.status = 429
                    /\ Answered(Last) /\ Last.o.status = 429)
          => /\ min_wait = Prev.min_wait + 20
             /\ max_wait = Prev.max_wait + 20

C2_Witness ==
    /\ nFetch >= 2
    /\ Answered(Prev) /\ Prev.o.status = 429 /\ Prev.depth >= 1
    /\ Answered(Last) /\ Last.o.status = 429 /\ Last.depth = 0

(* C3: a traversal drawn with depth d0 >= 0 makes at most d0 + 1 fetches;  *)
(* its first call has depth d0 and every further call the depth of its     *)
(* caller minus 1; a call with depth 0 is the last call of the traversal   *)
(* and, once it has returned, has made exactly one fetch.                  *)
C3_DepthBoundsFetches ==
    d0 >= 0 =>
        LET calls == EventsOf("call")
            gets == EventsOf("fetch")
            IsAtZero(e) == e.n = 0
        IN /\ Len(gets) <= d0 + 1
           /\ Len(gets) <= Len(calls)
           /\ Len(calls) >= 1 => calls[1].n = d0
           /\ \A i \in 2..Len(calls) : calls[i].n = calls[i - 1].n - 1
           /\ \A i \in 1..Len(calls) : calls[i].n = 0 => i = Len(calls)
           /\ pc = "fetched" => depth >= 1
           /\ (pc \in {"pause", "run"} /\ Len(calls) >= 1
                 /\ calls[Len(calls)].n = 0)
                => Len(SelectSeq(gets, IsAtZero)) = 1

C3_Witness ==
    /\ d0 = MaxDepthCfg
    /\ pc = "pause"
    /\ Len(EventsOf("fetch")) = d0 + 1
    /\ trace[Len(trace)].k = "fetch" /\ trace[Len(trace)].n = 0

\* the page just fetched came without error and none of its links passes
\* the filter
DeadEnd ==
    /\ pc = "fetched"
    /\ ~returnsError(res)
    /\ \A i \in DOMAIN res.content :
          res.content[i].k = "href" => Matches(res.content[i].s, blacklist)

(* C4: on a dead end at depth >= 1 the URL is appended to the blacklist    *)
(* and recursiveBrowse returns to run without a sleep, a link choice or a  *)
(* fetch; in the events of a traversal nothing but the pause of run        *)
(* follows a blacklisting.                                                 *)
C4_DeadEndBlacklistsAndStops ==
    /\ [][DeadEnd =>
            /\ blacklist' = Append(blacklist, url)
            /\ pc' = "pause"
            /\ trace' = Append(trace, Event("blacklist", url, depth))
            /\ nFetch' = nFetch
            /\ url' = url /\ depth' = depth]_vars
    /\ [](\A i \in DOMAIN trace :
            trace[i].k = "blacklist"
              => \A j \in (i + 1)..Len(trace) : trace[j].k = "pause")

\* a page with links, all of them filtered, has just been blacklisted
C4_Witness ==
    /\ pc = "pause"
    /\ ~returnsError(res) /\ res.content = Links
    /\ Len(trace) >= 1 /\ trace[Len(trace)].k = "blacklist"
    /\ trace[Len(trace)].n >= 1
    /\ blacklist[Len(blacklist)] = url

(* C5: in every step the old blacklist is a prefix of the new one.         *)
C5_BlacklistOnlyGrows == [][IsPrefix(blacklist, blacklist')]_vars

C5_Witness ==
    /\ Len(cfg0.blacklist) >= 1
    /\ Len(blacklist) >= Len(cfg0.blacklist) + 2
    /\ IsPrefix(cfg0.blacklist, blacklist)

(* C6: if the loaded configuration has min_wait <= max_wait and            *)
(* min_depth <= max_depth, both still hold in every state, so at the       *)
(* depth draw of run and at the sleep draw of recursiveBrowse.             *)
C6_BoundsStayOrdered ==
    (cfg0.min_wait <= cfg0.max_wait /\ cfg0.min_depth <= cfg0.max_depth)
        => /\ min_wait <= max_wait
           /\ min_depth <= max_depth

\* a sleep draw after two 429 responses
C6_Witness ==
    /\ cfg0.min_wait < cfg0.max_wait /\ cfg0.min_depth <= cfg0.max_depth
    /\ n429 >= 2
    /\ pc = "fetched" /\ ~returnsError(res)
    /\ Len(getLinks(res.content, blacklist)) > 0

(* C7, as stated: with a non-empty root URL set the driver loop never      *)
(* stops on its own and every traversal ends within the depth drawn.       *)
C7_LoopNeverStops ==
    Len(cfg0.root_urls) > 0
        => /\ pc # "panic"
           /\ Len(EventsOf("fetch")) <= max_depth + 1

(* C7, amended: with a non-empty root URL set, 0 <= min_depth <= max_depth *)
(* and min_wait <= max_wait in the loaded configuration, the loop never    *)
(* stops, every traversal makes at most max_depth + 1 fetches, and a new   *)
(* traversal starts again and again for as long as the model lets the      *)
(* process fetch.                                                          *)
C7_LoopNeverStopsOnValidConfig ==
    /\ [](ConfigOK0 => /\ pc # "panic"
                       /\ Len(EventsOf("fetch")) <= max_depth + 1)
    /\ []<>(~ConfigOK0 \/ TraversalStarts \/ nFetch = MaxFetches)

\* a traversal starts on a root that is blacklisted, after a fetch error
C7_Witness ==
    /\ ConfigOK0
    /\ TraversalStarts
    /\ url \in failed
    /\ Matches(url, blacklist)
    /\ nFetch < MaxFetches

(* C8: every fetch that fails in client.Do or while the body is read has   *)
(* slept the 30 seconds before it returned, and no fetch follows the       *)
(* penalty in the same traversal (stated for the configurations that       *)
(* satisfy ConfigOK0).                                                     *)
C8_PenaltyOnEveryTransportFailure ==
    ConfigOK0 =>
        /\ \A i \in DOMAIN recent :
              recent[i].o.err \in {"do", "read"} => recent[i].penalty = 30
        /\ \A i \in DOMAIN trace :
              trace[i].k = "penalty"
                => \A j \in (i + 1)..Len(trace) : trace[j].k # "fetch"

(* C9: a fetch that returns without error adds 1 to goodRequests if the    *)
(* status is 200 and to badRequests otherwise, never to both, and adds     *)
(* the length of the body to dataMeter whatever the status; no counter     *)
(* ever decreases and goodRequests + badRequests counts the fetches that   *)
(* returned without error.                                                 *)
C9_Counters ==
    /\ []((nFetch >= 1 /\ Answered(Last)) =>
            /\ goodRequests =
                 Last.goodRequests + (IF Last.o.status = 200 THEN 1 ELSE 0)
            /\ badRequests =
                 Last.badRequests + (IF Last.o.status = 200 THEN 0 ELSE 1)
            /\ dataMeter = Last.dataMeter + ByteLen(Last.o.content))
    /\ [](goodRequests + badRequests = nOK)
    /\ [][/\ goodRequests' >= goodRequests
          /\ badRequests' >= badRequests
          /\ dataMeter' >= dataMeter]_vars

C9_Witness ==
    /\ nFetch >= 2
    /\ Answered(Prev) /\ Prev.o.status = 200
    /\ Answered(Last) /\ Last.o.status = 404 /\ Last.o.content = Links
    /\ goodRequests = 1 /\ badRequests = 1
    /\ dataMeter = Last.dataMeter + 27

(* C10: isBlacklisted(u) returns true exactly when some entry of the       *)
(* blacklist it reads occurs in u as a substring.                          *)
C10_FilterIsSubstringMatch ==
    pc = "filtered" => (ret <=> Matches(url, blacklist))

\* the second entry is a proper substring of the link, the first is not
C10_Witness ==
    /\ pc = "filtered" /\ ret
    /\ Len(blacklist) = 2
    /\ ~IsSubstring(blacklist[1], url)
    /\ IsSubstring(blacklist[2], url) /\ blacklist[2] # url
    /\ Len(blacklist[2]) >= 1

----------------------------------------------------------------------------
\* positions of the events of kind k in the trace
At(k) == { i \in DOMAIN trace : trace[i].k = k }

\* the page just fetched has a link that passes the filter
HasValidLink ==
    \E i \in DOMAIN res.content :
        res.content[i].k = "href" /\ ~Matches(res.content[i].s, blacklist)

(* C11: in the scenario every traversal first fetches A at depth 2, and    *)
(* without error; its second fetch is of B or C at depth 1; neither A nor  *)
(* B is ever blacklisted; the fetch of B adds 1 to badRequests and 10 to   *)
(* min_wait and to max_wait; and a traversal that fetched B does not end   *)
(* before it has fetched D at depth 0 as its third and last fetch.         *)
C11_Scenario ==
    LET gets == EventsOf("fetch") IN
    /\ pc # "panic"
    /\ Len(gets) >= 1 => gets[1].u = A /\ gets[1].n = 2
    /\ (pc = "fetched" /\ url = A) => Answered(Last) /\ Last.o.status = 200
    /\ Len(gets) >= 2 => gets[2].u \in { B, C } /\ gets[2].n = 1
    /\ Count(blacklist, A) = 0 /\ Count(blacklist, B) = 0
    /\ \A i \in At("blacklist") : trace[i].u \notin { A, B }
    /\ (nFetch >= 1 /\ Last.url = B)
          => /\ Answered(Last)
             /\ badRequests = Last.badRequests + 1
             /\ goodRequests = Last.goodRequests
             /\ min_wait = Last.min_wait + 10
             /\ max_wait = Last.max_wait + 10
    /\ (Len(gets) >= 3 /\ gets[2].u = B)
          => Len(gets) = 3 /\ gets[3].u = D /\ gets[3].n = 0
    /\ (Len(gets) >= 2 /\ gets[2].u = B /\ pc \in { "pause", "run" })
          => Len(gets) = 3

C11_Witness ==
    LET gets == EventsOf("fetch") IN
    /\ pc = "pause"
    /\ Len(gets) = 3
    /\ gets[1].u = A /\ gets[2].u = B /\ gets[3].u = D /\ gets[3].n = 0
    /\ badRequests >= 1
    /\ min_wait = cfg0.min_wait + 10 /\ max_wait = cfg0.max_wait + 10
    /\ blacklist = << >>

(* C12: between two consecutive fetches of a traversal there is exactly    *)
(* one inter-hop sleep, and a sleep just drawn lies within min_wait and    *)
(* max_wait as they are after the fetch of the page that was just read.    *)
C12_OneSleepWithinLiveBounds ==
    /\ \A i \in At("fetch"), j \in At("fetch") :
          (i < j /\ \A m \in (i + 1)..(j - 1) : trace[m].k # "fetch")
            => Cardinality({ m \in (i + 1)..(j - 1) : trace[m].k = "wait" }) = 1
    /\ Cardinality(At("wait")) = Cardinality(At("call")) - (IF trace = << >> THEN 0 ELSE 1)
    /\ (pc = "browse" /\ Len(trace) >= 2)
          => /\ trace[Len(trace) - 1].k = "wait"
             /\ min_wait <= trace[Len(trace) - 1].n
             /\ trace[Len(trace) - 1].n <= max_wait

\* a sleep drawn after a 429 that is longer than the old max_wait allowed
C12_Witness ==
    /\ pc = "browse" /\ Len(trace) >= 2
    /\ Answered(Last) /\ Last.o.status = 429
    /\ Last.min_wait < Last.max_wait
    /\ trace[Len(trace) - 1].k = "wait"
    /\ trace[Len(trace) - 1].n = Last.max_wait + 10

(* C13: the first call of every traversal is for a URL of root_urls with a *)
(* depth within min_depth and max_depth; a traversal that ends at depth 0, *)
(* on a fetch error or on a dead end hands over to the pause, and the      *)
(* pause of 10 seconds is the last event of the iteration.                 *)
C13_RootDepthAndPause ==
    /\ [](Len(trace) >= 1 =>
            /\ trace[1].k = "call"
            /\ \E i \in DOMAIN root_urls : root_urls[i] = trace[1].u
            /\ min_depth <= trace[1].n /\ trace[1].n <= max_depth
            /\ trace[1].n = d0)
    /\ []((pc = "run" /\ Len(trace) >= 1) =>
            /\ trace[Len(trace)].k = "pause" /\ trace[Len(trace)].n = 10
            /\ Cardinality(At("pause")) = 1)
    /\ [][(\/ pc = "browse" /\ depth = 0 /\ nFetch' # nFetch
           \/ pc = "fetched" /\ returnsError(res)
           \/ DeadEnd) => pc' = "pause"]_vars
    /\ [][pc = "pause" =>
            /\ pc' = "run"
            /\ trace' = Append(trace, Event("pause", << >>, 10))]_vars

\* an iteration drawn with the largest depth of a proper range has ended,
\* after a blacklisting, with the pause
C13_Witness ==
    /\ pc = "run" /\ Len(trace) >= 1
    /\ min_depth < max_depth /\ d0 = max_depth
    /\ At("blacklist") # {}
    /\ trace[Len(trace)].k = "pause"

\* a page fetched at depth >= 1 came with a status other than 200 and has
\* a link that passes the filter
NonOKWithLinks ==
    /\ pc = "fetched" /\ depth >= 1
    /\ res.err = "none" /\ res.status # 200
    /\ HasValidLink

\* the step does not blacklist and descends to a valid link with depth-1
Descends ==
    /\ blacklist' = blacklist
    /\ pc' = "browse"
    /\ depth' = depth - 1
    /\ \E i \in DOMAIN res.content :
          /\ res.content[i].k = "href"
          /\ ~Matches(res.content[i].s, blacklist)
          /\ url' = res.content[i].s

(* C14, as stated: a page fetched at depth >= 1 with a status other than   *)
(* 200 and a valid link is not blacklisted, and the branch descends to one *)
(* of the valid links with depth-1.                                        *)
C14_NonOKDescends == [][NonOKWithLinks => Descends]_vars

(* C14, amended: the same, provided min_wait <= max_wait at the sleep      *)
(* draw.                                                                   *)
C14_NonOKDescendsWhenWaitsOrdered ==
    [][(NonOKWithLinks /\ min_wait <= max_wait) => Descends]_vars

\* the branch went on from a 429 page, which was not blacklisted
C14_Witness ==
    /\ pc = "browse" /\ Len(trace) >= 2
    /\ Answered(Last) /\ Last.o.status = 429 /\ Last.depth >= 1
    /\ depth = Last.depth - 1
    /\ Count(blacklist, Last.url) = 0
    /\ trace[Len(trace)].k = "call" /\ trace[Len(trace)].u = url

(* C15: a step taken by a call with depth 0 leaves the blacklist as it is, *)
(* the request of such a call returns to run, and no event of a traversal  *)
(* is a blacklisting at depth 0.                                           *)
C15_DepthZeroNeverBlacklists ==
    /\ [][(depth = 0 /\ pc \in { "browse", "fetched", "pause" })
            => blacklist' = blacklist]_vars
    /\ [][(pc = "browse" /\ depth = 0 /\ nFetch' # nFetch)
            => pc' = "pause"]_vars
    /\ [](\A i \in At("blacklist") : trace[i].n # 0)

\* a request at depth 0 has failed and its URL is not in the blacklist
C15_Witness ==
    /\ pc = "pause"
    /\ nFetch >= 1 /\ Last.depth = 0 /\ Last.o.err = "do"
    /\ trace[Len(trace)].k = "penalty"
    /\ Count(blacklist, Last.url) = 0

\* the positions of the body's matches that pass the filter
KeptAt(content, bl) ==
    { i \in DOMAIN content :
        content[i].k = "href" /\ ~Matches(content[i].s, bl) }

(* C16: getLinks returns the URLs of the body's matches that contain no    *)
(* blacklist entry, in the order of the body and as often as they occur;   *)
(* a body without a match gives the empty list.                            *)
C16_ExtractInOrderFiltered ==
    pc = "extracted" =>
        LET kept == KeptAt(res.content, blacklist)
            Nth(n) == CHOOSE i \in kept :
                         Cardinality({ j \in kept : j < i }) = n - 1
        IN /\ Len(ret) = Cardinality(kept)
           /\ \A n \in 1..Len(ret) : ret[n] = res.content[Nth(n)].s
           /\ (\A i \in DOMAIN res.content : res.content[i].k # "href")
                 => ret = << >>

\* three matches, one filtered, the two kept are the same URL
C16_Witness ==
    /\ pc = "extracted"
    /\ Len(FindAllString(res.content)) = 3
    /\ Len(ret) = 2 /\ ret[1] = ret[2]
    /\ Len(blacklist) >= 1

(* C17: min_wait and max_wait are their loaded values plus 10 for each     *)
(* 429 received so far; they never decrease, change in no step but the     *)
(* receipt of a 429, and stay as far apart as they were loaded.            *)
C17_BoundsAreStartPlusTenPer429 ==
    /\ [](/\ min_wait = cfg0.min_wait + 10 * n429
          /\ max_wait = cfg0.max_wait + 10 * n429
          /\ max_wait - min_wait = cfg0.max_wait - cfg0.min_wait)
    /\ [][/\ min_wait' >= min_wait
          /\ max_wait' >= max_wait
          /\ (min_wait' # min_wait \/ max_wait' # max_wait)
                => (n429' = n429 + 1 /\ res'.status = 429)]_vars

C17_Witness ==
    /\ n429 = 3
    /\ cfg0.min_wait < cfg0.max_wait
    /\ min_wait = cfg0.min_wait + 30

(* C18: the URL of a call other than the first of its traversal contains   *)
(* no blacklist entry while the call waits for its request and when it     *)
(* makes it, and no step of a waiting call changes the blacklist.          *)
C18_FetchedLinkNotBlacklisted ==
    /\ []((pc = "browse" /\ Cardinality(At("call")) >= 2)
            => ~Matches(url, blacklist))
    /\ [][(nFetch' # nFetch /\ Cardinality(At("call")) >= 2)
            => /\ ~Matches(url, blacklist')
               /\ blacklist' = blacklist]_vars
    /\ [][pc = "browse" => blacklist' = blacklist]_vars

\* a link was fetched while another link of the same page is blacklisted
C18_Witness ==
    /\ Cardinality(At("call")) >= 2
    /\ trace[Len(trace)].k = "fetch" /\ trace[Len(trace)].u = url
    /\ Len(blacklist) >= 1
    /\ Matches(AB, blacklist)
    /\ ~Matches(url, blacklist)

\* a traversal has at most one blacklisting; it is of the URL of its last
\* fetch, and that URL is the last entry of the blacklist
OneBlacklistingOfLastFetch ==
    /\ Cardinality(At("blacklist")) <= 1
    /\ \A i \in At("blacklist") :
          /\ At("fetch") # {}
          /\ \A j \in At("fetch") : j < i
          /\ \E j \in At("fetch") :
                /\ \A m \in At("fetch") : m <= j
                /\ trace[j].u = trace[i].u
                /\ trace[j].n = trace[i].n
          /\ Len(blacklist) >= 1
          /\ blacklist[Len(blacklist)] = trace[i].u

\* the blacklist changes only by the append that a blacklisting records,
\* and never in doRequest
AppendsAreBlacklistings ==
    /\ (blacklist' # blacklist) =>
          /\ blacklist' = Append(blacklist, url)
          /\ trace' = Append(trace, Event("blacklist", url, depth))
          /\ nFetch' = nFetch
    /\ (nFetch' # nFetch) => blacklist' = blacklist

(* C19, as stated: a traversal appends at most one entry, the URL of its   *)
(* last fetch, and that fetch was made at depth >= 1; doRequest never      *)
(* changes the blacklist.                                                  *)
C19_OneAppendAtDepthAtLeastOne ==
    /\ [](OneBlacklistingOfLastFetch
          /\ \A i \in At("blacklist") : trace[i].n >= 1)
    /\ [][AppendsAreBlacklistings]_vars

(* C19, amended: the same with the fetch made at a depth other than 0,     *)
(* which is a depth >= 1 whenever the depth drawn for the traversal is not *)
(* negative.                                                               *)
C19_OneAppendAtDepthNotZero ==
    /\ [](OneBlacklistingOfLastFetch
          /\ \A i \in At("blacklist") :
                /\ trace[i].n # 0
                /\ d0 >= 0 => trace[i].n >= 1)
    /\ [][AppendsAreBlacklistings]_vars

\* a traversal of the largest depth has blacklisted the URL of its second
\* fetch
C19_Witness ==
    /\ pc = "pause"
    /\ d0 = MaxDepthCfg
    /\ Cardinality(At("fetch")) = 2
    /\ trace[Len(trace)].k = "blacklist"
    /\ trace[Len(trace)].n = d0 - 1
    /\ Len(blacklist) = Len(cfg0.blacklist) + 1

(* C20: after a fetch that returned an error the three counters and the    *)
(* two wait bounds are what they were before it.                           *)
C20_ErrorLeavesCountersAndBounds ==
    (nFetch >= 1 /\ ~Answered(Last)) =>
        /\ goodRequests = Last.goodRequests
        /\ badRequests = Last.badRequests
        /\ dataMeter = Last.dataMeter
        /\ min_wait = Last.min_wait
        /\ max_wait = Last.max_wait

\* a failed body read after a 429 that had moved counters and bounds
C20_Witness ==
    /\ nFetch >= 2
    /\ Answered(Prev) /\ Prev.o.status = 429
    /\ Last.o.err = "read"
    /\ badRequests = 1 /\ dataMeter > 0
    /\ min_wait = cfg0.min_wait + 10

====
